---- MODULE Spec2Model ----
(***************************************************************************)
(* styled-tw-component: class-name composition of the components made by   *)
(* createStyled, and the table of per-tag constructors.                    *)
(*                                                                         *)
(* src/src/component/styled.tsx holds two texts of the module: the one     *)
(* whose createStyled takes (baseClass, config) (lines 248-367) and the    *)
(* one whose createStyled takes a single config object carrying baseClass  *)
(* (lines 1-246).  Both are modelled; the definitions of the second carry  *)
(* the suffix _cfg.                                                        *)
(***************************************************************************)
EXTENDS Integers, Sequences, FiniteSets, TLC

VARIABLES
    comps,   \* the components created so far, each with the call that made it
    out,     \* the last render: its inputs, the callback's locals, the element
    kept     \* an earlier render, remembered to compare later renders with

vars == <<comps, out, kept>>

----------------------------------------------------------------------------
(* JavaScript values.  Every value carries its typeof tag t; a string its  *)
(* text s; a plain object its own enumerable string-keyed properties m.    *)

Undefined == [t |-> "undefined", s |-> ""]
Null == [t |-> "object", s |-> "null"]
Str(s) == [t |-> "string", s |-> s]
Bool(b) == [t |-> "boolean", s |-> IF b THEN "true" ELSE "false"]
Func(name) == [t |-> "function", s |-> name]
Obj(m) == [t |-> "object", s |-> "", m |-> m]
RefObject == [t |-> "object", s |-> "ref1"]

typeof(v) == v.t

\* ToBoolean
Truthy(v) ==
    CASE v.t = "undefined" -> FALSE
      [] v.t = "string"    -> v.s # ""
      [] v.t = "boolean"   -> v.s = "true"
      [] v.t = "function"  -> TRUE
      [] v.t = "object"    -> v # Null

\* o.k on an object literal (props, config): an absent key reads undefined
Get(o, k) == IF k \in DOMAIN o THEN o[k] ELSE Undefined

\* keys every plain object inherits from Object.prototype (functions)
ObjectPrototypeKeys == {"constructor", "toString", "hasOwnProperty"}

\* ToPropertyKey of a string-or-undefined subscript
ToPropertyKey(v) == IF v.t = "undefined" THEN "undefined" ELSE v.s

\* obj[key] on a Record<string, string>
Index(obj, key) ==
    LET k == ToPropertyKey(key) IN
    IF k \in DOMAIN obj.m THEN Str(obj.m[k])
    ELSE IF k \in ObjectPrototypeKeys THEN Func(k)
    ELSE Undefined

\* { ...a, ...b }: later keys win
Spread(a, b) ==
    [k \in (DOMAIN a) \cup (DOMAIN b) |-> IF k \in DOMAIN b THEN b[k] ELSE a[k]]

\* an object literal written with every key, keeping the keys that are given
Absent == [t |-> "absent", s |-> ""]
Literal(o) == [k \in {k \in DOMAIN o : o[k] # Absent} |-> o[k]]

----------------------------------------------------------------------------
(* clsx(...fragments): truthy string arguments joined by one space.       *)

toVal(mix) == IF mix.t = "string" THEN mix.s ELSE ""

RECURSIVE clsxFrom(_, _, _)
clsxFrom(args, i, str) ==
    IF i > Len(args) THEN str
    ELSE LET tmp == args[i]
             x == IF Truthy(tmp) THEN toVal(tmp) ELSE ""
         IN  clsxFrom(args, i + 1,
                      IF x = "" THEN str
                      ELSE (IF str = "" THEN "" ELSE str \o " ") \o x)

clsx(args) == clsxFrom(args, 1, "")

----------------------------------------------------------------------------
(* The functions callers pass as baseClass / styleFn / styleWithProps.     *)

\* ({ isActive }) => (isActive ? "bg-green-500" : "bg-red-500")
byActive(props) ==
    IF Truthy(Get(props, "isActive")) THEN Str("bg-green-500") ELSE Str("bg-red-500")

\* ({ className }) => className
byClassName(props) == Get(props, "className")

Call(fn, props) ==
    CASE fn.s = "byActive"    -> byActive(props)
      [] fn.s = "byClassName" -> byClassName(props)

----------------------------------------------------------------------------
(* createStyled(baseClass, config) and its render callback.                *)

htmlTags ==
    {"div", "span", "button", "a", "p", "h1", "h2", "h3", "h4", "h5", "h6",
     "ul", "ol", "li", "input", "textarea", "select", "label", "form",
     "header", "footer", "nav", "section", "article", "aside", "main",
     "figure", "figcaption"}

\* the names the callback's parameter pattern takes out of the props
Reserved == {"className", "children", "variant", "as"}

\* a rest pattern that forgets to take className out
restProps_keepsClassName(request) ==
    [k \in (DOMAIN request) \ {"children", "variant", "as"} |-> request[k]]

\* ({ className, children, variant, as, ...props }, ref): the rest object
restProps(request) == [k \in (DOMAIN request) \ Reserved |-> request[k]]

baseClassValue(baseClass, props) ==
    IF typeof(baseClass) = "function" THEN Call(baseClass, props) ELSE baseClass

dynamicClass(config, props) ==
    IF Truthy(Get(config, "styleFn")) THEN Call(Get(config, "styleFn"), props)
    ELSE Str("")

variantClass(config, variant) ==
    IF Truthy(variant) /\ Truthy(Get(config, "variants"))
    THEN Index(Get(config, "variants"), variant)
    ELSE Str("")

\* a className that falls back to the one of the render before
combinedClassName_stale(base, dynamic, variantCls, className) ==
    clsx(<<base, dynamic, variantCls,
           IF Truthy(className) \/ out.i = 0 THEN className
           ELSE Get(out.request, "className")>>)

combinedClassName(base, dynamic, variantCls, className) ==
    clsx(<<base, dynamic, variantCls, className>>)

\* a target that prefers the creation-time as to the call-site as
Component_configFirst(as, config) ==
    IF Truthy(Get(config, "as")) THEN Get(config, "as")
    ELSE IF Truthy(as) THEN as
    ELSE Str("div")

Component(as, config) ==
    IF Truthy(as) THEN as
    ELSE IF Truthy(Get(config, "as")) THEN Get(config, "as")
    ELSE Str("div")

\* props that do not forward the ref
elementProps_noRef(ref, combined, props) ==
    Spread([className |-> Str(combined)], props)

\* { ref, className: combinedClassName, ...props }
elementProps(ref, combined, props) ==
    Spread([ref |-> ref, className |-> Str(combined)], props)

createElement(type, props, children) ==
    [type |-> type, props |-> props, children |-> children]

\* the argument lists of the caller's functions, in call order
calls(baseClass, config, props) ==
    (IF typeof(baseClass) = "function"
        THEN <<[fn |-> baseClass, args |-> props]>> ELSE <<>>)
    \o (IF Truthy(Get(config, "styleFn"))
        THEN <<[fn |-> Get(config, "styleFn"), args |-> props]>> ELSE <<>>)

createStyled(baseClass, config) ==
    [impl |-> "createStyled", baseClass |-> baseClass, config |-> config]

forwardRefCallback(c, request, ref) ==
    LET className == Get(request, "className")
        children  == Get(request, "children")
        variant   == Get(request, "variant")
        as        == Get(request, "as")
        props     == restProps(request)
        base      == baseClassValue(c.baseClass, props)
        dynamic   == dynamicClass(c.config, props)
        variantCls == variantClass(c.config, variant)
        combined  == combinedClassName(base, dynamic, variantCls, className)
    IN  [calls |-> calls(c.baseClass, c.config, props),
         baseClassValue |-> base,
         dynamicClass |-> dynamic,
         variantClass |-> variantCls,
         combinedClassName |-> combined,
         element |-> createElement(Component(as, c.config),
                                   elementProps(ref, combined, props),
                                   children)]

\* a tag constructor that does not bind its tag
StyledTag_unbound(tag, baseClass) == createStyled(baseClass, Literal([as |-> Absent]))

\* Styled[tag] = (baseClass) => createStyled(baseClass, { as: tag })
StyledTag(tag, baseClass) == createStyled(baseClass, [as |-> Str(tag)])

\* Styled.create = (baseClass, config = {}) => createStyled(baseClass, config)
StyledCreate(baseClass, config) == createStyled(baseClass, config)

----------------------------------------------------------------------------
(* createStyled(config), the text whose config object carries baseClass,   *)
(* and its render callback.                                                *)

restProps_cfg(request) == [k \in (DOMAIN request) \ Reserved |-> request[k]]

baseClass_cfg(config, props) ==
    IF typeof(Get(config, "baseClass")) = "function"
    THEN Call(Get(config, "baseClass"), props)
    ELSE Get(config, "baseClass")

dynamicClass_cfg(config, props) ==
    IF Truthy(Get(config, "styleFn")) THEN Call(Get(config, "styleFn"), props)
    ELSE Str("")

\* config.variants?.[variant!] || ""
variantClass_cfg(config, variant) ==
    LET variants == Get(config, "variants")
        found == IF variants = Undefined \/ variants = Null THEN Undefined
                 ELSE Index(variants, variant)
    IN  IF Truthy(found) THEN found ELSE Str("")

combinedClassName_cfg(base, dynamic, variantCls, className) ==
    clsx(<<IF typeof(base) = "string" THEN base ELSE Str(""),
           dynamic, variantCls, className>>)

Component_cfg(base, as, config) ==
    IF typeof(base) = "function" \/ typeof(base) = "object" THEN base
    ELSE IF Truthy(as) THEN as
    ELSE IF Truthy(Get(config, "as")) THEN Get(config, "as")
    ELSE Str("div")

\* { ref, className: combinedClassName, ...props }
elementProps_cfg(ref, combined, props) ==
    Spread([ref |-> ref, className |-> Str(combined)], props)

calls_cfg(config, props) ==
    (IF typeof(Get(config, "baseClass")) = "function"
        THEN <<[fn |-> Get(config, "baseClass"), args |-> props]>> ELSE <<>>)
    \o (IF Truthy(Get(config, "styleFn"))
        THEN <<[fn |-> Get(config, "styleFn"), args |-> props]>> ELSE <<>>)

createStyled_cfg(config) ==
    [impl |-> "createStyled_cfg", baseClass |-> Undefined, config |-> config]

forwardRefCallback_cfg(c, request, ref) ==
    LET className == Get(request, "className")
        children  == Get(request, "children")
        variant   == Get(request, "variant")
        as        == Get(request, "as")
        props     == restProps_cfg(request)
        base      == baseClass_cfg(c.config, props)
        dynamic   == dynamicClass_cfg(c.config, props)
        variantCls == variantClass_cfg(c.config, variant)
        combined  == combinedClassName_cfg(base, dynamic, variantCls, className)
    IN  [calls |-> calls_cfg(c.config, props),
         baseClassValue |-> base,
         dynamicClass |-> dynamic,
         variantClass |-> variantCls,
         combinedClassName |-> combined,
         element |-> createElement(Component_cfg(base, as, c.config),
                                   elementProps_cfg(ref, combined, props),
                                   children)]

\* Styled.base[tag] = (baseClass) => createStyled({ baseClass, as: tag })
StyledBaseTag(tag, baseClass) ==
    createStyled_cfg([baseClass |-> baseClass, as |-> Str(tag)])

\* Styled.create = createStyled
StyledCreate_cfg(config) == createStyled_cfg(config)

\* what React calls when the component c is rendered
render(c, request, ref) ==
    IF c.impl = "createStyled" THEN forwardRefCallback(c, request, ref)
    ELSE forwardRefCallback_cfg(c, request, ref)

----------------------------------------------------------------------------
(* Inputs.                                                                 *)

ReadmeVariants == Obj([primary |-> "text-blue-500", secondary |-> "text-gray-500"])
EdgeVariants ==
    Obj([k \in {"", "undefined"} |-> IF k = "" THEN "ring-1" ELSE "hidden"])

BaseClasses == {Str("p-4"), Str(""), Func("byActive")}

Configs ==
    { Literal([as |-> a, variants |-> v, styleFn |-> f, styleWithProps |-> w]) :
        a \in {Absent, Str("section"), Func("Button")},
        v \in {Absent, ReadmeVariants, EdgeVariants},
        f \in {Absent, Func("byActive"), Func("byClassName")},
        w \in {Absent, Func("byActive")} }

\* second arguments handed to a tag constructor
TagConfigs ==
    { Literal([as |-> a, variants |-> v, styleFn |-> Absent]) :
        a \in {Absent, Str("section")},
        v \in {Absent, ReadmeVariants} }

Requests ==
    { Literal([className |-> cn, children |-> ch, variant |-> v, as |-> a,
               isActive |-> ia]) :
        cn \in {Absent, Str(""), Str("m-2")},
        ch \in {Absent, Str("Label")},
        v  \in {Absent, Str("primary"), Str(""), Str("tertiary"), Str("constructor")},
        a  \in {Absent, Str("a")},
        ia \in {Absent, Bool(TRUE), Bool(FALSE)} }

Refs == {Null, RefObject}

\* the smaller inputs of the runs with several components and renders
MaxComponents == 2

SeqBaseClasses == {Str("text-base"), Func("byActive")}

SeqConfigs ==
    { Literal([as |-> Absent]),
      [as |-> Str("section"), variants |-> ReadmeVariants, styleFn |-> Func("byActive")] }

SeqTags == {"span"}

SeqRequests ==
    { Literal([as |-> Absent]),
      [variant |-> Str("primary"), className |-> Str("m-2")],
      [as |-> Str("a"), isActive |-> Bool(TRUE)] }

NoRender == [i |-> 0]

Made(c, via, tag, b, cfg) ==
    [made |-> c, via |-> via, tag |-> tag, baseClass |-> b, config |-> cfg]

----------------------------------------------------------------------------
Init == comps = <<>> /\ out = NoRender /\ kept = NoRender

\* Styled.create(baseClass, config)
Create ==
    /\ comps = <<>>
    /\ \E b \in BaseClasses, cfg \in Configs :
         comps' = <<Made(StyledCreate(b, cfg), "create", "", b, cfg)>>
    /\ UNCHANGED <<out, kept>>

\* Styled.create({ baseClass, ...config })
Create_cfg ==
    /\ comps = <<>>
    /\ \E b \in BaseClasses \cup {Absent}, cfg \in Configs :
         comps' = <<Made(StyledCreate_cfg(Spread(Literal([baseClass |-> b]), cfg)),
                         "create", "", IF b = Absent THEN Undefined ELSE b, cfg)>>
    /\ UNCHANGED <<out, kept>>

\* Styled[tag](baseClass, config): the constructor declares one parameter
Tag ==
    /\ comps = <<>>
    /\ \E tag \in htmlTags, b \in BaseClasses, cfg \in TagConfigs :
         comps' = <<Made(StyledTag(tag, b), "tag", tag, b, cfg)>>
    /\ UNCHANGED <<out, kept>>

\* Styled.base[tag](baseClass, config)
Tag_cfg ==
    /\ comps = <<>>
    /\ \E tag \in htmlTags, b \in BaseClasses, cfg \in TagConfigs :
         comps' = <<Made(StyledBaseTag(tag, b), "tag", tag, b, cfg)>>
    /\ UNCHANGED <<out, kept>>

\* React renders component i with the given props and ref
RenderFrom(reqs, refs) ==
    \E i \in DOMAIN comps, request \in reqs, ref \in refs :
        /\ out' = [i |-> i, request |-> request, ref |-> ref,
                   r |-> render(comps[i].made, request, ref)]
        /\ kept' \in {kept, out}
        /\ UNCHANGED comps

\* the first render of the component under test
Render == out = NoRender /\ RenderFrom(Requests, Refs)

Next == Create \/ Create_cfg \/ Tag \/ Tag_cfg \/ Render

Spec == Init /\ [][Next]_vars

\* several components, rendered again and again in any order
SeqCreate ==
    /\ Len(comps) < MaxComponents
    /\ \E b \in SeqBaseClasses, cfg \in SeqConfigs :
         \/ comps' = Append(comps, Made(StyledCreate(b, cfg), "create", "", b, cfg))
         \/ comps' = Append(comps,
                Made(StyledCreate_cfg(Spread([baseClass |-> b], cfg)), "create", "", b, cfg))
    /\ UNCHANGED <<out, kept>>

SeqTag ==
    /\ Len(comps) < MaxComponents
    /\ \E tag \in SeqTags, b \in SeqBaseClasses :
         \/ comps' = Append(comps, Made(StyledTag(tag, b), "tag", tag, b, Literal([as |-> Absent])))
         \/ comps' = Append(comps, Made(StyledBaseTag(tag, b), "tag", tag, b, Literal([as |-> Absent])))
    /\ UNCHANGED <<out, kept>>

SeqRender == RenderFrom(SeqRequests, {Null})

NextSeq == SeqCreate \/ SeqTag \/ SeqRender

SpecSeq == Init /\ [][NextSeq]_vars

----------------------------------------------------------------------------
(* What the specification says of a render, stated over the recorded       *)
(* render `out` of the component comps[out.i].                             *)

Rendered == out.i # 0
Entry == comps[out.i]
ClassString == out.r.element.props.className.s

\* the text a value contributes as a class fragment
Text(v) == IF v.t = "string" THEN v.s ELSE ""

NonReserved(request) ==
    [k \in (DOMAIN request) \ {"className", "children", "variant", "as"} |-> request[k]]

RECURSIVE Joined(_)
Joined(frags) ==
    IF frags = <<>> THEN ""
    ELSE IF Len(frags) = 1 THEN frags[1]
    ELSE frags[1] \o " " \o Joined(Tail(frags))

\* the non-empty fragments, in order, one space between neighbours
JoinFragments(frags) == Joined(SelectSeq(frags, LAMBDA f : f # ""))

BaseFragment ==
    IF Entry.baseClass.t = "function"
    THEN Text(Call(Entry.baseClass, NonReserved(out.request)))
    ELSE Text(Entry.baseClass)

DynamicFragment(key) ==
    IF key \in DOMAIN Entry.config
    THEN Text(Call(Entry.config[key], NonReserved(out.request)))
    ELSE ""

VariantIsKey ==
    /\ "variant" \in DOMAIN out.request
    /\ "variants" \in DOMAIN Entry.config
    /\ out.request.variant.s \in DOMAIN Entry.config.variants.m

VariantFragment ==
    IF VariantIsKey THEN Entry.config.variants.m[out.request.variant.s] ELSE ""

ClassNameFragment == Text(Get(out.request, "className"))

\* create(base, config) through the entry point of the text that made c
CreateLike(impl, b, cfg) ==
    IF impl = "createStyled" THEN StyledCreate(b, cfg)
    ELSE StyledCreate_cfg(Spread([baseClass |-> b], cfg))

----------------------------------------------------------------------------
\* C1: the class string of a component made by create is the non-empty
\* fragments among base class, dynamic-class result, variant-mapped class and
\* caller className, in that order, joined by single spaces.
C1_ClassStringIsJoinedFragments ==
    (Rendered /\ Entry.via = "create") =>
        ClassString = JoinFragments(<<BaseFragment, DynamicFragment("styleFn"),
                                      VariantFragment, ClassNameFragment>>)

\* C2: Styled[tag](base, config) renders what create(base, config with
\* as = tag) renders.
C2_TagConstructorTakesConfig ==
    (Rendered /\ Entry.via = "tag") =>
        out.r.element =
            render(CreateLike(Entry.made.impl, Entry.baseClass,
                              Spread(Entry.config, [as |-> Str(Entry.tag)])),
                   out.request, out.ref).element

\* C3: a dynamic-class function given to create under the key styleWithProps
\* is called with the request's props and its result is part of the class
\* string, between the base class and the variant class.
C3_StyleWithPropsIsApplied ==
    (Rendered /\ Entry.via = "create"
        /\ "styleWithProps" \in DOMAIN Entry.config
        /\ "styleFn" \notin DOMAIN Entry.config) =>
        ClassString = JoinFragments(<<Text(out.r.baseClassValue),
                                      DynamicFragment("styleWithProps"),
                                      Text(out.r.variantClass), ClassNameFragment>>)

\* C4: when the request's variant is a key of the configured variants map
\* (the empty-string key included), the string mapped to it follows the base
\* and dynamic fragments and precedes className in the class string.
C4_VariantKeyIsAppended ==
    (Rendered /\ Entry.via = "create" /\ VariantIsKey) =>
        ClassString = JoinFragments(<<Text(out.r.baseClassValue),
                                      Text(out.r.dynamicClass),
                                      Entry.config.variants.m[out.request.variant.s],
                                      ClassNameFragment>>)

\* C5: when variant is omitted or is no key of the variants map (or no map is
\* configured), no variant fragment is in the class string, which equals the
\* one of the same request without variant.
C5_UnknownVariantIsIgnored ==
    (Rendered /\ Entry.via = "create" /\ ~VariantIsKey) =>
        /\ ClassString = JoinFragments(<<Text(out.r.baseClassValue),
                                         Text(out.r.dynamicClass), ClassNameFragment>>)
        /\ ClassString =
              render(Entry.made,
                     [k \in (DOMAIN out.request) \ {"variant"} |-> out.request[k]],
                     out.ref).element.props.className.s

C7_TagEqualsCreateWithAs ==
    (Rendered /\ Entry.via = "tag" /\ DOMAIN Entry.config = {}) =>
        LET other == render(CreateLike(Entry.made.impl, Entry.baseClass,
                                       [as |-> Str(Entry.tag)]),
                            out.request, out.ref).element
        IN  /\ out.r.element.type = other.type
            /\ out.r.element.props.className = other.props.className

C7_Witness ==
    /\ Rendered /\ Entry.via = "tag" /\ Entry.tag = "figcaption"
    /\ DOMAIN Entry.config = {}
    /\ Entry.baseClass = Func("byActive")
    /\ out.r.element.type = Str("figcaption")
    /\ ClassString = "bg-green-500 m-2"

C10_ForwardedProps ==
    Rendered =>
        LET p == out.r.element.props IN
        /\ DOMAIN p = {"ref", "className"}
                        \cup ((DOMAIN out.request)
                                \ {"className", "children", "variant", "as"})
        /\ p.ref = out.ref
        /\ p.className = Str(out.r.combinedClassName)
        /\ \A k \in (DOMAIN p) \ {"ref", "className"} : p[k] = out.request[k]
        /\ out.r.element.children = Get(out.request, "children")

C10_Witness ==
    /\ Rendered /\ out.ref = RefObject
    /\ {"className", "children", "variant", "as", "isActive"} \subseteq DOMAIN out.request
    /\ out.request.className = Str("m-2")
    /\ out.r.combinedClassName = "p-4 text-blue-500 m-2"

====
